---- MODULE Spec2Model ----
(***************************************************************************)
(* Model of the 1Limit transaction diagnosis scripts:                      *)
(*   scripts/debug_contract_level.py and scripts/analyze_failed_tx.py.     *)
(* A run fetches a transaction and its receipt, decodes the fillOrder      *)
(* call input by fixed hex offsets, queries the wallet's token state at    *)
(* the transaction's block and prints a list of likely failure reasons.    *)
(*                                                                         *)
(* Python strings are sequences of one-character strings.  A Python int    *)
(* (unbounded) is a numeral: the sequence of its base-16 digit values,     *)
(* most significant first, without leading zeros (zero is << >>).          *)
(***************************************************************************)
EXTENDS Integers, Sequences, FiniteSets, TLC

(***************************************************************************)
(* Bounds of the model                                                     *)
(***************************************************************************)
\* amounts, balances and allowances range over 0..MaxUnits token units
MaxUnits == 2

(***************************************************************************)
(* Python string primitives                                                *)
(***************************************************************************)
Min(a, b) == IF a < b THEN a ELSE b

LowerDigits == <<"0","1","2","3","4","5","6","7","8","9","a","b","c","d","e","f">>

UpperDigits == <<"0","1","2","3","4","5","6","7","8","9","A","B","C","D","E","F">>

HexChars == {LowerDigits[i] : i \in 1..16} \cup {UpperDigits[i] : i \in 1..16}

\* str.lower() on the characters of hexadecimal strings
LowerTable ==
    [c \in HexChars \cup {"x", "X", "z"} |->
        IF \E i \in 11..16 : UpperDigits[i] = c
        THEN LowerDigits[CHOOSE i \in 11..16 : UpperDigits[i] = c]
        ELSE IF c = "X" THEN "x" ELSE c]

\* str.lower() on one character
LowerChar(c) == LowerTable[c]

\* str.lower()
Lower(s) == [i \in 1..Len(s) |-> LowerChar(s[i])]

HexValTable == [c \in HexChars |-> (CHOOSE i \in 1..16 : LowerDigits[i] = LowerChar(c)) - 1]

\* value of one hexadecimal digit, either case
HexVal(c) == HexValTable[c]

\* s[a:b] with 0 <= a, 0 <= b
PySlice(s, a, b) == SubSeq(s, a + 1, Min(b, Len(s)))

\* s[a:]
PySliceFrom(s, a) == SubSeq(s, a + 1, Len(s))

\* s[-k:]
PyLast(s, k) == IF Len(s) <= k THEN s ELSE SubSeq(s, Len(s) - k + 1, Len(s))

\* s.startswith(p)
StartsWith(s, p) == Len(s) >= Len(p) /\ SubSeq(s, 1, Len(p)) = p

\* s.zfill(w) for a string without sign
ZFill(s, w) == [i \in 1..(IF Len(s) < w THEN w - Len(s) ELSE 0) |-> "0"] \o s

\* the digits int(s, 16) reads: an optional 0x prefix is accepted
Base16Body(s) ==
    IF Len(s) >= 2 /\ s[1] = "0" /\ s[2] \in {"x", "X"} THEN SubSeq(s, 3, Len(s)) ELSE s

\* int(s, 16) raises ValueError
Int16Raises(s) ==
    LET d == Base16Body(s) IN Len(d) = 0 \/ \E i \in 1..Len(d) : d[i] \notin HexChars

RECURSIVE Canon(_)
\* a digit-value sequence without its leading zeros
Canon(v) == IF Len(v) > 0 /\ v[1] = 0 THEN Canon(Tail(v)) ELSE v

\* the values of a string of hexadecimal digits
DigitValues(d) == [i \in 1..Len(d) |-> HexVal(d[i])]

\* int(s, 16) when it does not raise
Int16(s) == Canon(DigitValues(Base16Body(s)))

\* a > 0 on a Python int
NumPositive(a) == Len(a) > 0

RECURSIVE HexOf(_)
\* the hexadecimal digits of a natural number, no prefix ("0" for zero)
HexOf(n) == IF n < 16 THEN <<LowerDigits[n + 1]>> ELSE Append(HexOf(n \div 16), LowerDigits[(n % 16) + 1])

\* hex(n)
PyHex(n) == <<"0", "x">> \o HexOf(n)

(***************************************************************************)
(* Module-level constants of the scripts                                   *)
(***************************************************************************)
ROUTER_V6 == <<"0","x","1","1","1","1","1","1","1","2","5","4","2","1","c","A","6","d","c","4","5","2","d","2","8","9","3","1","4","2","8","0","a","0","f","8","8","4","2","A","6","5">>

USDC_CONTRACT == <<"0","x","3","c","4","9","9","c","5","4","2","c","E","F","5","E","3","8","1","1","e","1","1","9","2","c","e","7","0","d","8","c","C","0","3","d","5","c","3","3","5","9">>

WMATIC_CONTRACT == <<"0","x","0","d","5","0","0","B","1","d","8","E","8","e","F","3","1","E","2","1","C","9","9","d","1","D","b","9","A","6","4","4","4","d","3","A","D","f","1","2","7","0">>

\* "0x9fda64bd", the fillOrder method id
FILL_ORDER == <<"0","x","9","f","d","a","6","4","b","d">>

\* "0x70a08231", balanceOf(address)
BALANCE_OF == <<"0","x","7","0","a","0","8","2","3","1">>

\* "0xdd62ed3e", allowance(owner, spender)
ALLOWANCE_OF == <<"0","x","d","d","6","2","e","d","3","e">>

Scripts == {"debug_contract_level", "analyze_failed_tx"}

\* an optional value: << >> is "never assigned", <<x>> is x
None == << >>

Some(x) == <<x>>

(***************************************************************************)
(* Chain data a run can be given: the transaction, its receipt             *)
(***************************************************************************)
\* a "0x" string of an account that is neither token nor router
WalletA == <<"0","x","3","f","8","4","7","d","4","3","9","0","b","5","a","2","7","8","3","e","a","4","a","e","d","6","8","8","7","4","7","4","d","e","8","f","f","f","f","a","9","5">>

WalletB == <<"0","x","5","A","a","e","b","6","0","5","3","F","3","E","9","4","C","9","b","9","A","0","9","f","3","3","6","6","9","4","3","5","E","7","E","f","1","B","e","A","e","d">>

\* a token that no script and no table of the repository names (WETH)
OTHER_TOKEN == <<"0","x","7","c","e","B","2","3","f","D","6","b","C","0","a","d","D","5","9","E","6","2","a","c","2","5","5","7","8","2","7","0","c","F","f","1","b","9","f","6","1","9">>

\* "0xa9059cbb", transfer(address,uint256): a method id other than fillOrder
TRANSFER == <<"0","x","a","9","0","5","9","c","b","b">>

\* raw units of one token unit of a 6-decimal asset
UNIT6 == 1000000

\* s left-filled with the character g to one 64-character slot
Fill(g, s) == [i \in 1..(64 - Len(s)) |-> g] \o s

\* the hexadecimal digits of an address, as HexBytes.hex() prints them
AddrBody(a) == Lower(PySliceFrom(a, 2))

\* 3 * 10^18 in hexadecimal
TAKING_DIGITS == <<"2","9","a","2","2","4","1","a","f","6","2","c","0","0","0","0">>

\* fourteen slots: the twelve fillOrder arguments and two trailing slots
CallSlots(g, asset, units) ==
    <<Fill(g, HexOf(12345)),
      Fill(g, AddrBody(WalletA)),
      Fill(g, AddrBody(WalletB)),
      Fill(g, AddrBody(asset)),
      Fill(g, AddrBody(IF asset = WMATIC_CONTRACT THEN USDC_CONTRACT ELSE WMATIC_CONTRACT)),
      Fill("0", HexOf(units * UNIT6)),
      Fill("0", TAKING_DIGITS),
      Fill(g, <<"a","b">>),
      Fill("a", <<"1">>),
      Fill("b", <<"2">>),
      Fill("0", HexOf(units * UNIT6 + 7)),
      Fill(g, <<"1">>),
      Fill("c", <<"3">>),
      Fill("d", <<"4">>)>>

RECURSIVE Concat(_)
Concat(ss) == IF Len(ss) = 0 THEN << >> ELSE Head(ss) \o Concat(Tail(ss))

\* tx['input'].hex(): a method id followed by the first nbytes bytes of the slots
CallInput(sel, g, asset, units, nbytes) ==
    sel \o PySlice(Concat(CallSlots(g, asset, units)), 0, 2 * nbytes)

\* byte lengths of the argument area: empty, cut inside slot 6, eleven
\* slots, one byte short of twelve, twelve, twelve and a byte, thirteen
ParamLengths == {0, 193, 352, 383, 384, 385, 416}

GarbageChars == {"0", "f"}

Assets == {USDC_CONTRACT, WMATIC_CONTRACT, OTHER_TOKEN}

TxInputs ==
    {CallInput(FILL_ORDER, g, a, u, 384) : g \in GarbageChars, a \in Assets, u \in 0..MaxUnits}
    \cup {CallInput(FILL_ORDER, g, USDC_CONTRACT, u, n) :
              g \in GarbageChars, u \in 0..MaxUnits, n \in ParamLengths}
    \cup {CallInput(TRANSFER, "0", USDC_CONTRACT, 1, n) : n \in {64, 384}}
    \cup {<<"0", "x">>}

GasValues == {33462, 150000}

\* the block the transaction was mined in
BlockNumbers == {74000000, 74000001}

Receipts == [status : {0, 1}, gasUsed : GasValues, blockNumber : BlockNumbers]

(***************************************************************************)
(* Decoding of the call input                                              *)
(***************************************************************************)
\* the label the token analysis prints for an asset address
TokenLabel(addr) ==
    IF Lower(addr) = Lower(USDC_CONTRACT) THEN "USDC"
    ELSE IF Lower(addr) = Lower(WMATIC_CONTRACT) THEN "WMATIC"
    ELSE "Unknown"

\* a raw amount divided by 10**decimals
Scaled(raw, decimals) == [raw |-> raw, decimals |-> decimals]

\* debug_contract_level.py: a token analysis line names the asset only
TokenMention(addr) == [label |-> TokenLabel(addr), amount |-> None]

\* TokenAmount comparing the address as spelled, without .lower()
TokenAmountCaseSensitive(addr, raw) ==
    IF addr = USDC_CONTRACT
    THEN [label |-> "USDC", amount |-> Some(Scaled(raw, 6))]
    ELSE IF addr = WMATIC_CONTRACT
    THEN [label |-> "WMATIC", amount |-> Some(Scaled(raw, 18))]
    ELSE [label |-> "Unknown", amount |-> None]

\* analyze_failed_tx.py: a token analysis line names the asset and, for a
\* known asset, the amount divided by 10**6 or 10**18
TokenAmount(addr, raw) ==
    IF Lower(addr) = Lower(USDC_CONTRACT)
    THEN [label |-> "USDC", amount |-> Some(Scaled(raw, 6))]
    ELSE IF Lower(addr) = Lower(WMATIC_CONTRACT)
    THEN [label |-> "WMATIC", amount |-> Some(Scaled(raw, 18))]
    ELSE [label |-> "Unknown", amount |-> None]

\* debug_contract_level.py: the 64-character pieces int() is applied to
\* before anything is printed
OrderIntSlices(order_data) ==
    {PySlice(order_data, 0, 64), PySlice(order_data, 320, 384), PySlice(order_data, 384, 448)}

\* DecodeOrder taking the first 40 characters of an address slot ([:40])
DecodeOrderHighEnd(params_data) ==
    LET order_data == PySlice(params_data, 0, 512) IN
    [salt           |-> Int16(PySlice(order_data, 0, 64)),
     maker          |-> <<"0", "x">> \o PySlice(PySlice(order_data, 64, 128), 0, 40),
     receiver       |-> <<"0", "x">> \o PySlice(PySlice(order_data, 128, 192), 0, 40),
     makerAsset     |-> <<"0", "x">> \o PySlice(PySlice(order_data, 192, 256), 0, 40),
     takerAsset     |-> <<"0", "x">> \o PySlice(PySlice(order_data, 256, 320), 0, 40),
     makingAmount   |-> Int16(PySlice(order_data, 320, 384)),
     takingAmount   |-> Int16(PySlice(order_data, 384, 448)),
     makerAssetData |-> Some(<<"0", "x">> \o PySlice(order_data, 448, 512))]

\* debug_contract_level.py: the order tuple, by fixed offsets
DecodeOrder(params_data) ==
    LET order_data == PySlice(params_data, 0, 512) IN
    [salt           |-> Int16(PySlice(order_data, 0, 64)),
     maker          |-> <<"0", "x">> \o PyLast(PySlice(order_data, 64, 128), 40),
     receiver       |-> <<"0", "x">> \o PyLast(PySlice(order_data, 128, 192), 40),
     makerAsset     |-> <<"0", "x">> \o PyLast(PySlice(order_data, 192, 256), 40),
     takerAsset     |-> <<"0", "x">> \o PyLast(PySlice(order_data, 256, 320), 40),
     makingAmount   |-> Int16(PySlice(order_data, 320, 384)),
     takingAmount   |-> Int16(PySlice(order_data, 384, 448)),
     makerAssetData |-> Some(<<"0", "x">> \o PySlice(order_data, 448, 512))]

\* DecodeFill slicing the whole argument area instead of remaining_data
DecodeFillUnshifted(params_data) ==
    LET remaining_data == PySliceFrom(params_data, 512) IN
    IF Len(remaining_data) >= 256
    THEN Some([r           |-> <<"0", "x">> \o PySlice(remaining_data, 0, 64),
               vs          |-> <<"0", "x">> \o PySlice(remaining_data, 64, 128),
               amount      |-> Int16(PySlice(params_data, 128, 192)),
               takerTraits |-> Int16(PySlice(params_data, 192, 256))])
    ELSE None

\* debug_contract_level.py: r, vs, amount, takerTraits
DecodeFill(params_data) ==
    LET remaining_data == PySliceFrom(params_data, 512) IN
    IF Len(remaining_data) >= 256
    THEN Some([r           |-> <<"0", "x">> \o PySlice(remaining_data, 0, 64),
               vs          |-> <<"0", "x">> \o PySlice(remaining_data, 64, 128),
               amount      |-> Int16(PySlice(remaining_data, 128, 192)),
               takerTraits |-> Int16(PySlice(remaining_data, 192, 256))])
    ELSE None

\* debug_contract_level.py: the decimal exponents the exchange rate divides
\* the making and the taking amount by
RateExponents(o) ==
    IF NumPositive(o.makingAmount) /\ NumPositive(o.takingAmount)
    THEN IF Lower(o.makerAsset) = Lower(USDC_CONTRACT)
         THEN Some([making |-> 6, taking |-> 18])
         ELSE Some([making |-> 18, taking |-> 6])
    ELSE None

\* analyze_failed_tx.py: params_data cut in pieces of 64 characters
Chunks(params_data) ==
    [i \in 1..((Len(params_data) + 63) \div 64) |-> PySlice(params_data, 64 * (i - 1), 64 * i)]

\* analyze_failed_tx.py: an address field of a chunk
ChunkAddress(c) ==
    IF Len(c) >= 40 THEN <<"0", "x">> \o PyLast(c, 40) ELSE <<"0", "x">> \o ZFill(c, 40)

\* analyze_failed_tx.py: an integer field of a chunk
ChunkInt(c) == IF Len(c) > 0 THEN Int16(c) ELSE << >>

\* analyze_failed_tx.py: the seven fields it extracts
DecodeChunks(chunks) ==
    [salt           |-> ChunkInt(chunks[1]),
     maker          |-> ChunkAddress(chunks[2]),
     receiver       |-> ChunkAddress(chunks[3]),
     makerAsset     |-> ChunkAddress(chunks[4]),
     takerAsset     |-> ChunkAddress(chunks[5]),
     makingAmount   |-> ChunkInt(chunks[6]),
     takingAmount   |-> ChunkInt(chunks[7]),
     makerAssetData |-> None]

(***************************************************************************)
(* Responses of the node to an eth_call                                    *)
(***************************************************************************)
\* requests.post raises, or response.json() raises
RaisingResponse == [raises |-> TRUE, status_code |-> 0, result |-> None]

\* an HTTP reply; result is the JSON body's 'result' member when it has one
HttpResponse(code, result) == [raises |-> FALSE, status_code |-> code, result |-> result]

\* a 32-byte return value of k token units
ReturnWord(k) == <<"0", "x">> \o Fill("0", HexOf(k * UNIT6))

EthCallResponses ==
    {RaisingResponse,
     HttpResponse(500, None),
     HttpResponse(200, None),
     HttpResponse(200, Some(<<"0", "x">>)),
     HttpResponse(200, Some(<<"0", "x", "z", "z">>))}
    \cup {HttpResponse(200, Some(ReturnWord(k))) : k \in 0..MaxUnits}

\* the response handling of both scripts raises ValueError inside int()
ResponseRaises(resp) ==
    \/ resp.raises
    \/ /\ resp.status_code = 200
       /\ resp.result # None
       /\ resp.result[1] # <<"0", "x">>
       /\ Int16Raises(resp.result[1])

\* the value a script holds after the response handling; raw is the integer
\* it read, decimals the exponent it divides by, defaulted tells that the
\* script printed 0 without having read a value
ResponseValue(resp, held) ==
    IF resp.status_code # 200 THEN held
    ELSE IF resp.result # None /\ resp.result[1] # <<"0", "x">>
         THEN Some([raw |-> Int16(resp.result[1]), decimals |-> 6, defaulted |-> FALSE])
         ELSE Some([raw |-> << >>, decimals |-> 6, defaulted |-> TRUE])

\* BalanceRequest asking for the present state, as check_wallet_balances.py does
BalanceRequestLatest(wallet, block_number) ==
    [method |-> "eth_call",
     to     |-> USDC_CONTRACT,
     data   |-> BALANCE_OF \o ZFill(PySliceFrom(wallet, 2), 64),
     block  |-> <<"l", "a", "t", "e", "s", "t">>]

\* the eth_call request body for balanceOf(wallet)
BalanceRequest(wallet, block_number) ==
    [method |-> "eth_call",
     to     |-> USDC_CONTRACT,
     data   |-> BALANCE_OF \o ZFill(PySliceFrom(wallet, 2), 64),
     block  |-> PyHex(block_number)]

\* the eth_call request body for allowance(wallet, ROUTER_V6)
AllowanceRequest(wallet, block_number) ==
    [method |-> "eth_call",
     to     |-> USDC_CONTRACT,
     data   |-> ALLOWANCE_OF \o ZFill(PySliceFrom(wallet, 2), 64)
                            \o ZFill(PySliceFrom(ROUTER_V6, 2), 64),
     block  |-> PyHex(block_number)]

\* w3.eth.get_balance(wallet, block_identifier=block_number)
NativeBalanceRequest(wallet, block_number) ==
    [method |-> "eth_getBalance",
     to     |-> wallet,
     data   |-> << >>,
     block  |-> PyHex(block_number)]

(***************************************************************************)
(* The printed failure analysis                                            *)
(***************************************************************************)
\* one printed line: its printed number (0 for a line without number) and
\* the cause it names
Line(rank, cause) == [rank |-> rank, cause |-> cause]

\* ContractLevelAnalysis with entries 1 and 2 exchanged
ContractLevelAnalysisBalanceFirst ==
    <<Line(0, "early revert, likely validation failure"),
      Line(1, "insufficient balance"),
      Line(2, "insufficient allowance"),
      Line(3, "signature invalid"),
      Line(4, "order expired or already filled"),
      Line(5, "order validation failed"),
      Line(6, "price/slippage condition unmet")>>

\* debug_contract_level.py, "Contract-Level Failure Analysis"
ContractLevelAnalysis ==
    <<Line(0, "early revert, likely validation failure"),
      Line(1, "insufficient allowance"),
      Line(2, "insufficient balance"),
      Line(3, "signature invalid"),
      Line(4, "order expired or already filled"),
      Line(5, "order validation failed"),
      Line(6, "price/slippage condition unmet")>>

\* analyze_failed_tx.py, "Likely Failure Reasons"
LikelyFailureReasons ==
    <<Line(1, "price/slippage condition unmet"),
      Line(2, "order expired or already filled"),
      Line(3, "signature invalid"),
      Line(4, "nonce/salt already used"),
      Line(5, "order conditions not met")>>

(***************************************************************************)
(* State                                                                   *)
(***************************************************************************)
VARIABLES
    script,         \* which script runs
    pc,             \* position of the run
    tx_input,       \* tx['input'].hex()
    tx_from,        \* tx['from']
    receipt,        \* status, gasUsed, blockNumber of the receipt
    order,          \* the decoded order fields, once printed
    fill,           \* r, vs, amount, takerTraits, once printed
    token_analysis, \* labels printed for maker and taker asset
    exchange_rate,  \* decimal exponents the exchange rate was computed with
    usdc_balance,   \* the token balance the run holds
    usdc_allowance, \* the token allowance the run holds
    matic_balance,  \* the native balance the run holds
    requests,       \* state queries sent so far, in order
    report,         \* the printed failure analysis
    error,          \* the exception the outer handler printed
    norm,           \* token amounts normalised one at a time, in order
    calls,          \* invocations of the RPC helpers, in order
    args,           \* the mode check_wallet_transactions.py was started in
    cpc,            \* position of check_wallet_transactions.py's main
    queries,        \* RPC methods that process posted, in order
    latest_block,   \* what get_latest_block gave
    tx_count,       \* what get_transaction_count gave
    balance,        \* what get_balance gave
    tx_details,     \* what get_transaction_details gave
    tx_receipt,     \* what get_transaction_receipt gave
    returned,       \* how check_wallet_activity / analyze_transaction ended
    exit_code       \* the process's exit code, -1 while it runs

vars == <<script, pc, tx_input, tx_from, receipt, order, fill, token_analysis,
          exchange_rate, usdc_balance, usdc_allowance, matic_balance, requests,
          report, error, norm, calls, args, cpc, queries, latest_block, tx_count,
          balance, tx_details, tx_receipt, returned, exit_code>>

\* the state of check_wallet_transactions.py
checker == <<args, cpc, queries, latest_block, tx_count, balance, tx_details,
             tx_receipt, returned, exit_code>>

\* what a diagnosis run never writes: its inputs and the other tools' state
chain == <<script, tx_input, tx_from, receipt, norm, calls, checker>>

\* check_wallet_transactions.py is not running
CheckerOff ==
    /\ args = "default"
    /\ cpc = "off"
    /\ queries = << >>
    /\ latest_block = None
    /\ tx_count = None
    /\ balance = None
    /\ tx_details = None
    /\ tx_receipt = None
    /\ returned = "nothing"
    /\ exit_code = -1

Init ==
    /\ script \in Scripts
    /\ pc = "fetch"
    /\ tx_input \in TxInputs
    /\ tx_from \in {WalletA, WalletB}
    /\ receipt \in Receipts
    /\ order = None
    /\ fill = None
    /\ token_analysis = None
    /\ exchange_rate = None
    /\ usdc_balance = None
    /\ usdc_allowance = None
    /\ matic_balance = None
    /\ requests = << >>
    /\ report = << >>
    /\ error = "none"
    /\ norm = << >>
    /\ calls = << >>
    /\ CheckerOff

\* the outer "except Exception" of a script: print the error, skip the rest
Abort(kind) ==
    /\ pc' = "failed"
    /\ error' = kind

(***************************************************************************)
(* Steps of a run                                                          *)
(***************************************************************************)
\* w3.eth.get_transaction and w3.eth.get_transaction_receipt return
FetchTransaction ==
    /\ pc = "fetch"
    /\ pc' = "decode"
    /\ UNCHANGED <<chain, order, fill, token_analysis, exchange_rate, usdc_balance,
                   usdc_allowance, matic_balance, requests, report, error>>

\* one of the two lookups raises (transaction not found, transport failure)
FetchRaises ==
    /\ pc = "fetch"
    /\ Abort("fetch")
    /\ UNCHANGED <<chain, order, fill, token_analysis, exchange_rate, usdc_balance,
                   usdc_allowance, matic_balance, requests, report>>

\* debug_contract_level.py: "Decode fillOrder parameters"
DecodeContractLevel ==
    /\ pc = "decode"
    /\ script = "debug_contract_level"
    /\ LET params_data == PySliceFrom(tx_input, 10)
           order_data == PySlice(params_data, 0, 512)
       IN  IF ~StartsWith(tx_input, FILL_ORDER)
           THEN /\ pc' = "balance"
                /\ UNCHANGED <<order, fill, token_analysis, exchange_rate, error>>
           ELSE IF \E piece \in OrderIntSlices(order_data) : Int16Raises(piece)
           THEN /\ Abort("ValueError")
                /\ UNCHANGED <<order, fill, token_analysis, exchange_rate>>
           ELSE LET o == DecodeOrder(params_data) IN
                /\ order' = Some(o)
                /\ token_analysis' = Some([maker |-> TokenMention(o.makerAsset),
                                           taker |-> TokenMention(o.takerAsset)])
                /\ exchange_rate' = RateExponents(o)
                /\ fill' = DecodeFill(params_data)
                /\ pc' = "balance"
                /\ UNCHANGED error
    /\ UNCHANGED <<chain, usdc_balance, usdc_allowance, matic_balance, requests, report>>

\* analyze_failed_tx.py: "Decode input data"
DecodeQuick ==
    /\ pc = "decode"
    /\ script = "analyze_failed_tx"
    /\ LET params_data == PySliceFrom(tx_input, 10)
           chunks == Chunks(params_data)
       IN  IF StartsWith(tx_input, FILL_ORDER) /\ Len(chunks) >= 12
           THEN LET o == DecodeChunks(chunks) IN
                /\ order' = Some(o)
                /\ token_analysis' =
                      Some([maker |-> TokenAmount(o.makerAsset, o.makingAmount),
                            taker |-> TokenAmount(o.takerAsset, o.takingAmount)])
           ELSE UNCHANGED <<order, token_analysis>>
    /\ pc' = "balance"
    /\ UNCHANGED <<chain, fill, exchange_rate, usdc_balance, usdc_allowance,
                   matic_balance, requests, report, error>>

\* both scripts: "Check USDC balance" at the receipt's block
QueryBalance(resp) ==
    /\ pc = "balance"
    /\ requests' = Append(requests, BalanceRequest(tx_from, receipt.blockNumber))
    /\ IF ResponseRaises(resp)
       THEN /\ Abort(IF resp.raises THEN "RequestException" ELSE "ValueError")
            /\ UNCHANGED usdc_balance
       ELSE /\ usdc_balance' = ResponseValue(resp, usdc_balance)
            /\ pc' = IF script = "debug_contract_level" THEN "allowance" ELSE "native"
            /\ UNCHANGED error
    /\ UNCHANGED <<chain, order, fill, token_analysis, exchange_rate, usdc_allowance,
                   matic_balance, report>>

\* debug_contract_level.py: "Check USDC allowance for Router V6"
QueryAllowance(resp) ==
    /\ pc = "allowance"
    /\ requests' = Append(requests, AllowanceRequest(tx_from, receipt.blockNumber))
    /\ IF ResponseRaises(resp)
       THEN /\ Abort(IF resp.raises THEN "RequestException" ELSE "ValueError")
            /\ UNCHANGED usdc_allowance
       ELSE /\ usdc_allowance' = ResponseValue(resp, usdc_allowance)
            /\ pc' = "analysis"
            /\ UNCHANGED error
    /\ UNCHANGED <<chain, order, fill, token_analysis, exchange_rate, usdc_balance,
                   matic_balance, report>>

\* analyze_failed_tx.py: "Check WMATIC balance"; its own try/except prints
\* "Could not fetch" and the run goes on
QueryNativeBalance(ok, k) ==
    /\ pc = "native"
    /\ requests' = Append(requests, NativeBalanceRequest(tx_from, receipt.blockNumber))
    /\ matic_balance' = IF ok THEN Some([raw |-> Int16(HexOf(k * UNIT6)), decimals |-> 18,
                                         defaulted |-> FALSE])
                        ELSE None
    /\ pc' = "analysis"
    /\ UNCHANGED <<chain, order, fill, token_analysis, exchange_rate, usdc_balance,
                   usdc_allowance, report, error>>

\* PrintAnalysis reading the balance again before it prints
PrintAnalysisRequerying ==
    /\ pc = "analysis"
    /\ requests' = Append(requests, BalanceRequest(tx_from, receipt.blockNumber))
    /\ report' = IF script = "debug_contract_level" THEN ContractLevelAnalysis
                 ELSE LikelyFailureReasons
    /\ pc' = "done"
    /\ UNCHANGED <<chain, order, fill, token_analysis, exchange_rate, usdc_balance,
                   usdc_allowance, matic_balance, error>>

\* both scripts: the closing list of failure reasons
PrintAnalysis ==
    /\ pc = "analysis"
    /\ report' = IF script = "debug_contract_level" THEN ContractLevelAnalysis
                 ELSE LikelyFailureReasons
    /\ pc' = "done"
    /\ UNCHANGED <<chain, order, fill, token_analysis, exchange_rate, usdc_balance,
                   usdc_allowance, matic_balance, requests, error>>

Next ==
    \/ FetchTransaction
    \/ FetchRaises
    \/ DecodeContractLevel
    \/ DecodeQuick
    \/ \E resp \in EthCallResponses : QueryBalance(resp)
    \/ \E resp \in EthCallResponses : QueryAllowance(resp)
    \/ \E ok \in BOOLEAN, k \in 0..MaxUnits : QueryNativeBalance(ok, k)
    \/ PrintAnalysis

Spec == Init /\ [][Next]_vars

TypeOK ==
    /\ script \in Scripts
    /\ pc \in {"fetch", "decode", "balance", "allowance", "native", "analysis", "done", "failed"}
    /\ Len(order) <= 1
    /\ Len(fill) <= 1
    /\ (pc = "failed") = (error # "none")

(***************************************************************************)
(* Vocabulary of the properties                                            *)
(***************************************************************************)
\* the decode step of the run has been taken
DecodeActed == pc \in {"balance", "allowance", "native", "analysis", "done"}
               \/ (pc = "failed" /\ error # "fetch")

\* the leading 4 bytes of the call input are the fillOrder method id
SelectorMatches == Len(tx_input) >= 10 /\ SubSeq(tx_input, 1, 10) = FILL_ORDER

\* number of hex characters after the 4-byte method id
ParamChars == IF Len(tx_input) >= 10 THEN Len(tx_input) - 10 ELSE 0

\* the argument area is a whole number of 32-byte slots, at least twelve
WholeSlots == ParamChars % 64 = 0 /\ ParamChars >= 12 * 64

\* slot i (from 0) of the call input, as 64 hex characters
Slot(i) == SubSeq(tx_input, 10 + 64 * i + 1, 10 + 64 * i + 64)

\* the Python int n is the big-endian value of all 32 bytes of slot i
IsSlotValue(n, i) ==
    /\ Len(n) <= 64
    /\ DigitValues(Slot(i)) = [j \in 1..(64 - Len(n)) |-> 0] \o n

\* the address string a is the low-order 20 bytes of slot i
IsSlotAddress(a, i) == a = <<"0", "x">> \o SubSeq(Slot(i), 25, 64)

\* the blob string b is slot i verbatim
IsSlotBlob(b, i) == b = <<"0", "x">> \o Slot(i)

\* the causes of the printed analysis, in printing order
Causes == [i \in 1..Len(report) |-> report[i].cause]

Listed(cause) == \E i \in 1..Len(report) : report[i].cause = cause

\* the cause is printed as number 1 of the list
RankedFirst(cause) == \E i \in 1..Len(report) : report[i].cause = cause /\ report[i].rank = 1

\* position of a listed cause in printing order
Position(cause) == CHOOSE i \in 1..Len(report) : report[i].cause = cause

LowConfidenceCauses ==
    {"price/slippage condition unmet", "order expired or already filled", "signature invalid"}

\* candidate values of the configured low-gas threshold
ConfiguredThresholds == {30000, 50000}

\* a < b on two integers given as numerals
NumLT(a, b) ==
    \/ Len(a) < Len(b)
    \/ /\ Len(a) = Len(b)
       /\ \E i \in 1..Len(a) : a[i] < b[i] /\ \A j \in 1..(i - 1) : a[j] = b[j]

\* the run reached its analysis with a decoded order and a balance it read
HoldsBalance == order # None /\ usdc_balance # None /\ ~usdc_balance[1].defaulted

HoldsAllowance == usdc_allowance # None /\ ~usdc_allowance[1].defaulted

BalanceShort == HoldsBalance /\ NumLT(usdc_balance[1].raw, order[1].makingAmount)

AllowanceShort == order # None /\ HoldsAllowance
                  /\ NumLT(usdc_allowance[1].raw, order[1].makingAmount)

(***************************************************************************)
(* C1 - C4: decoding                                                       *)
(***************************************************************************)
\* C1: a call input with the fillOrder method id whose argument area is not
\* a whole number of 32-byte slots, or is shorter than twelve slots, makes
\* decoding fail: the run does not get past the decode step and no order or
\* fill parameter is produced.
C1_TruncatedInputRejected ==
    (SelectorMatches /\ ~WholeSlots)
        => (pc \in {"fetch", "decode", "failed"} /\ order = None /\ fill = None)

\* C2: a call input whose leading 4 bytes are not 0x9fda64bd makes decoding
\* fail: the run does not get past the decode step and produces no order or
\* fill parameter.
C2_UnrecognizedSelectorRejected ==
    ~SelectorMatches
        => (pc \in {"fetch", "decode", "failed"} /\ order = None /\ fill = None)

\* C3: for a call input of the fillOrder method id and at least twelve whole
\* slots, once the decode step is taken the fields are the slots by
\* position: salt 0, maker, receiver, makerAsset, takerAsset 1-4 (low 20
\* bytes), makingAmount, takingAmount 5-6, makerAssetData 7 verbatim, r and
\* vs 8-9 verbatim, fill amount and takerTraits 10-11; integers are the
\* full 32-byte big-endian value.  analyze_failed_tx.py extracts only the
\* first seven.
C3_FieldsByPosition ==
    (DecodeActed /\ SelectorMatches /\ WholeSlots) =>
        /\ order # None
        /\ IsSlotValue(order[1].salt, 0)
        /\ IsSlotAddress(order[1].maker, 1)
        /\ IsSlotAddress(order[1].receiver, 2)
        /\ IsSlotAddress(order[1].makerAsset, 3)
        /\ IsSlotAddress(order[1].takerAsset, 4)
        /\ IsSlotValue(order[1].makingAmount, 5)
        /\ IsSlotValue(order[1].takingAmount, 6)
        /\ script = "debug_contract_level" =>
              /\ order[1].makerAssetData # None
              /\ IsSlotBlob(order[1].makerAssetData[1], 7)
              /\ fill # None
              /\ IsSlotBlob(fill[1].r, 8)
              /\ IsSlotBlob(fill[1].vs, 9)
              /\ IsSlotValue(fill[1].amount, 10)
              /\ IsSlotValue(fill[1].takerTraits, 11)

\* a valid input whose salt and takerTraits have non-zero high-order bytes
\* was decoded by debug_contract_level.py
C3_Witness ==
    /\ DecodeActed /\ SelectorMatches /\ WholeSlots
    /\ script = "debug_contract_level"
    /\ order # None /\ fill # None
    /\ Len(order[1].salt) = 64
    /\ Len(fill[1].takerTraits) = 64
    /\ NumPositive(order[1].makingAmount)

\* the argument area with the high-order 12 bytes of slots 1-4 set to zero
ZeroedAddressParams ==
    Slot(0) \o Concat([i \in 1..4 |-> Fill("0", SubSeq(Slot(i), 25, 64))])
            \o SubSeq(tx_input, 10 + 320 + 1, Len(tx_input))

AddressFields(o) == <<o.maker, o.receiver, o.makerAsset, o.takerAsset>>

\* C4: whenever an order is produced, each of its four addresses is the
\* low-order 20 bytes of its slot, and is the address decoded from the same
\* input with the high-order 12 bytes of the address slots zeroed; a valid
\* input with non-zero high bytes does not abort decoding.
C4_AddressIgnoresHighBytes ==
    /\ order # None =>
          /\ \A i \in 1..4 : IsSlotAddress(AddressFields(order[1])[i], i)
          /\ AddressFields(order[1]) =
                AddressFields(IF script = "debug_contract_level"
                              THEN DecodeOrder(ZeroedAddressParams)
                              ELSE DecodeChunks(Chunks(ZeroedAddressParams)))
    /\ (DecodeActed /\ SelectorMatches /\ WholeSlots) => order # None

\* an order was produced from address slots whose high 12 bytes are 0xff..ff
C4_Witness ==
    /\ order # None
    /\ \A i \in 1..4 : \A j \in 1..24 : Slot(i)[j] = "f"
    /\ order[1].maker = <<"0", "x">> \o AddrBody(WalletA)

(***************************************************************************)
(* C5 - C10: the failure analysis                                          *)
(***************************************************************************)
\* C5: when the receipt status is success (1), no failure cause is printed.
C5_SuccessHasEmptyDiagnosis == receipt.status = 1 => report = << >>

\* C6: when the receipt status is failed and the balance read is below the
\* order's makingAmount, "insufficient balance" is listed and is number 1.
C6_BalanceRankedFirst ==
    (pc = "done" /\ receipt.status = 0 /\ BalanceShort)
        => (Listed("insufficient balance") /\ RankedFirst("insufficient balance"))

C8_RuleOrder ==
    (pc = "done" /\ receipt.status = 0 /\ BalanceShort /\ AllowanceShort)
        => /\ Listed("insufficient balance")
           /\ Listed("insufficient allowance")
           /\ Position("insufficient balance") < Position("insufficient allowance")
           /\ Listed("early revert, likely validation failure")
                 => Position("insufficient allowance")
                       < Position("early revert, likely validation failure")

\* C9: on a failed receipt, for each configured low-gas threshold the
\* "early revert" cause is listed exactly when the receipt's gasUsed is
\* below that threshold.
C9_EarlyRevertFollowsThreshold ==
    (pc = "done" /\ receipt.status = 0)
        => \A t \in ConfiguredThresholds :
              Listed("early revert, likely validation failure") <=> (receipt.gasUsed < t)

\* C10: on a failed receipt, the three low-confidence causes are all listed
\* when none of the balance, allowance and low-gas rules applies, and none
\* of them is listed when at least one applies.
C10_LowConfidenceOnlyAsFallback ==
    (pc = "done" /\ receipt.status = 0 /\ HoldsBalance)
        => \A t \in ConfiguredThresholds :
              IF BalanceShort \/ AllowanceShort \/ receipt.gasUsed < t
              THEN \A c \in LowConfidenceCauses : ~Listed(c)
              ELSE \A c \in LowConfidenceCauses : Listed(c)

(***************************************************************************)
(* C11 - C15, C20: the snapshot queries of a diagnosis run                 *)
(***************************************************************************)
LATEST == <<"l", "a", "t", "e", "s", "t">>

\* C11: every balance, allowance and native-balance request of a run that
\* diagnoses a transaction is sent with the block number of that
\* transaction's receipt, never with "latest".
C11_QueriesPinnedToBlock ==
    \A i \in 1..Len(requests) :
        /\ requests[i].block = PyHex(receipt.blockNumber)
        /\ requests[i].block # LATEST

\* debug_contract_level.py sent its balance and its allowance request for a
\* transaction of the second block
C11_Witness ==
    /\ script = "debug_contract_level"
    /\ Len(requests) = 2
    /\ SubSeq(requests[1].data, 1, 10) = BALANCE_OF
    /\ SubSeq(requests[2].data, 1, 10) = ALLOWANCE_OF
    /\ receipt.blockNumber = 74000001

\* the owner argument of a balanceOf or allowance call, 40 hex characters
QueryOwner(req) == SubSeq(req.data, 10 + 24 + 1, 10 + 64)

\* the spender argument of an allowance call, 40 hex characters
QuerySpender(req) == SubSeq(req.data, 10 + 64 + 24 + 1, 10 + 128)

\* C12: for every decoded order, each balanceOf and allowance request goes
\* to the order's makerAsset with the order's maker as owner, and the
\* allowance request names the router as spender.
C12_SnapshotOfMakerAndMakerAsset ==
    order # None =>
        \A i \in 1..Len(requests) :
            requests[i].method = "eth_call" =>
                /\ Lower(requests[i].to) = Lower(order[1].makerAsset)
                /\ Lower(QueryOwner(requests[i])) = Lower(PySliceFrom(order[1].maker, 2))
                /\ SubSeq(requests[i].data, 1, 10) = ALLOWANCE_OF
                      => Lower(QuerySpender(requests[i])) = Lower(PySliceFrom(ROUTER_V6, 2))

\* the run went past its balance query without a value it read
BalanceUnusable ==
    /\ pc \in {"allowance", "native", "analysis", "done"}
    /\ (usdc_balance = None \/ usdc_balance[1].defaulted)

\* the run went past its allowance query without a value it read
AllowanceUnusable ==
    /\ script = "debug_contract_level"
    /\ pc \in {"analysis", "done"}
    /\ (usdc_allowance = None \/ usdc_allowance[1].defaulted)

\* C13: a run whose balance or allowance query gave no usable value does
\* not go on: it holds no zero in place of the value and prints no list.
C13_NoDiagnosisFromPartialSnapshot ==
    /\ ~BalanceUnusable
    /\ ~AllowanceUnusable
    /\ report # << >> => (HoldsBalance /\ (script = "debug_contract_level" => HoldsAllowance))

\* C14: once decoding has met a wrong method id or a truncated argument
\* area, the run sends no query, prints nothing derived from order fields
\* and prints no list of causes.
C14_DecodeErrorAborts ==
    (DecodeActed /\ (~SelectorMatches \/ ~WholeSlots))
        => /\ requests = << >>
           /\ report = << >>
           /\ token_analysis = None
           /\ exchange_rate = None

\* C15: an amount whose asset the token analysis labels Unknown is never
\* given as a number: the analysis prints no amount for it and no exchange
\* rate is computed from it with the exponent of a known asset.
C15_UnknownAssetNotScaled ==
    token_analysis # None =>
        /\ token_analysis[1].maker.label = "Unknown"
              => (token_analysis[1].maker.amount = None /\ exchange_rate = None)
        /\ token_analysis[1].taker.label = "Unknown"
              => (token_analysis[1].taker.amount = None /\ exchange_rate = None)

USDT_ADDRESS == <<"0","x","c","2","1","3","2","D","0","5","D","3","1","c","9","1","4","a","8","7","C","6","6","1","1","C","1","0","7","4","8","A","E","b","0","4","B","5","8","e","8","F">>

DAI_ADDRESS == <<"0","x","8","f","3","C","f","7","a","d","2","3","C","d","3","C","a","D","b","D","9","7","3","5","A","F","f","9","5","8","0","2","3","2","3","9","c","6","A","0","6","3">>

\* check_wallet_balances.py: the table of known tokens
TOKENS ==
    {[symbol |-> "WMATIC", address |-> WMATIC_CONTRACT, decimals |-> 18],
     [symbol |-> "USDC",   address |-> USDC_CONTRACT,   decimals |-> 6],
     [symbol |-> "USDT",   address |-> USDT_ADDRESS,    decimals |-> 6],
     [symbol |-> "DAI",    address |-> DAI_ADDRESS,     decimals |-> 18]}

\* str.upper() on the characters of hexadecimal strings
UpperTable ==
    [c \in HexChars |->
        IF \E i \in 11..16 : LowerDigits[i] = c
        THEN UpperDigits[CHOOSE i \in 11..16 : LowerDigits[i] = c]
        ELSE c]

\* an address as written, in lower case, and with upper-case digits
Spellings(a) ==
    {a, Lower(a),
     <<"0", "x">> \o [i \in 1..(Len(a) - 2) |-> UpperTable[a[i + 2]]]}

NormalizeAddresses ==
    UNION {Spellings(t.address) : t \in TOKENS} \cup Spellings(OTHER_TOKEN)

\* 10^18 as a Python int
TEN_TO_18 == DigitValues(<<"d","e","0","b","6","b","3","a","7","6","4","0","0","0","0">>)

NormalizeAmounts == {Int16(HexOf(u * UNIT6)) : u \in 0..MaxUnits} \cup {TEN_TO_18}

\* number of amounts normalised in one session
MaxNormalized == 2

\* the state of a diagnosis run while another tool is modelled
DiagnosisOff ==
    /\ script = "analyze_failed_tx"
    /\ pc = "off"
    /\ tx_input = <<"0", "x">>
    /\ tx_from = WalletA
    /\ receipt = [status |-> 0, gasUsed |-> 33462, blockNumber |-> 74000000]
    /\ order = None
    /\ fill = None
    /\ token_analysis = None
    /\ exchange_rate = None
    /\ usdc_balance = None
    /\ usdc_allowance = None
    /\ matic_balance = None
    /\ requests = << >>
    /\ report = << >>
    /\ error = "none"

diagnosis == <<script, pc, tx_input, tx_from, receipt, order, fill, token_analysis,
               exchange_rate, usdc_balance, usdc_allowance, matic_balance, requests,
               report, error>>

NormalizeInit ==
    /\ DiagnosisOff
    /\ norm = << >>
    /\ calls = << >>
    /\ CheckerOff

\* analyze_failed_tx.py's token analysis applied to one address and amount
Normalize(addr, raw) ==
    /\ Len(norm) < MaxNormalized
    /\ norm' = Append(norm, [address |-> addr, raw |-> raw, line |-> TokenAmount(addr, raw)])
    /\ UNCHANGED <<diagnosis, calls, checker>>

NormalizeNext == \E addr \in NormalizeAddresses, raw \in NormalizeAmounts : Normalize(addr, raw)

NormalizeSpec == NormalizeInit /\ [][NormalizeNext]_vars

\* C16: for every amount and every address that is, letter case ignored,
\* the address of an entry of the token table, the normalised value is the
\* raw amount divided by 10 to that entry's decimals.
C16_RegisteredAmountScaled ==
    \A i \in 1..Len(norm) : \A t \in TOKENS :
        Lower(norm[i].address) = Lower(t.address)
            => norm[i].line.amount = Some(Scaled(norm[i].raw, t.decimals))

\* the same for the two tokens analyze_failed_tx.py names; this part holds
C16_NamedTokensScaled ==
    \A i \in 1..Len(norm) : \A t \in TOKENS :
        (t.symbol \in {"USDC", "WMATIC"} /\ Lower(norm[i].address) = Lower(t.address))
            => /\ norm[i].line.amount = Some(Scaled(norm[i].raw, t.decimals))
               /\ norm[i].line.label = t.symbol

(***************************************************************************)
(* The RPC helpers of check_wallet_transactions.py and                     *)
(* check_wallet_balances.py, one invocation at a time                      *)
(***************************************************************************)
\* number of helper invocations in one session
MaxCalls == 2

\* the JSON string a node can put in "result"
ResultTexts ==
    {<<"0","x","0">>,
     <<"0","x","d","e","0","b","6","b","3","a","7","6","4","0","0","0","0">>,
     <<"0","x">>,
     <<"f","f">>,
     <<"0","x","z","z">>}

\* what comes back for one posted request: "unavailable" is a request that
\* failed in transport (timed out, connection refused), "http_error" a
\* status other than 200, "not_json" a body that is not JSON; the other
\* kinds are JSON bodies told apart by their 'error' and 'result' members
Replies ==
    {[kind |-> k, text |-> << >>] :
        k \in {"unavailable", "http_error", "not_json", "rpc_error", "no_result",
               "null_result", "number"}}
    \cup {[kind |-> "string", text |-> t] : t \in ResultTexts}

Pending == [kind |-> "pending", raw |-> << >>, decimals |-> 0, exc |-> ""]

ReturnedNone == [kind |-> "None", raw |-> << >>, decimals |-> 0, exc |-> ""]

ReturnedInt(n) == [kind |-> "int", raw |-> n, decimals |-> 0, exc |-> ""]

\* n / 10**d as a float; 0 / 10**d is 0.0 whatever d is
ReturnedFloat(n, d) ==
    [kind |-> "float", raw |-> n, decimals |-> IF n = << >> THEN 0 ELSE d, exc |-> ""]

Raised(e) == [kind |-> "raised", raw |-> << >>, decimals |-> 0, exc |-> e]

\* the request one invocation of a helper posts
Request(op) ==
    CASE op = "get_transaction_count" -> [method |-> "eth_getTransactionCount", block |-> LATEST]
      [] op = "get_balance" -> [method |-> "eth_getBalance", block |-> LATEST]
      [] op = "get_latest_block" -> [method |-> "eth_blockNumber", block |-> << >>]
      [] op \in {"check_balance", "check_allowance"} -> [method |-> "eth_call", block |-> LATEST]

\* PolygonWalletChecker.json_rpc_call: None for a failed request, an
\* 'error' member and an absent or null 'result' alike
json_rpc_call(reply) ==
    IF reply.kind \in {"unavailable", "http_error", "not_json", "rpc_error", "no_result", "null_result"}
    THEN [kind |-> "None", text |-> << >>]
    ELSE reply

\* int(result, 16) inside try/except ValueError
ParsedOrNone(result) ==
    IF result.kind = "None" THEN ReturnedNone
    ELSE IF result.kind = "number" THEN Raised("TypeError")
    ELSE IF Int16Raises(result.text) THEN ReturnedNone
    ELSE ReturnedInt(Int16(result.text))

get_transaction_count(reply) == ParsedOrNone(json_rpc_call(reply))

get_latest_block(reply) == ParsedOrNone(json_rpc_call(reply))

get_balance(reply) ==
    LET parsed == ParsedOrNone(json_rpc_call(reply))
    IN  IF parsed.kind = "int" THEN ReturnedFloat(parsed.raw, 18) ELSE parsed

\* check_wallet_balances.check_balance: 0.0 for everything but a result
\* that int(_, 16) reads
check_balance(reply, decimals) ==
    IF reply.kind = "string" /\ reply.text # <<"0", "x">> /\ ~Int16Raises(reply.text)
    THEN ReturnedFloat(Int16(reply.text), decimals)
    ELSE ReturnedFloat(<< >>, decimals)

check_allowance(reply, decimals) ==
    IF reply.kind = "string" /\ reply.text # <<"0", "x">> /\ ~Int16Raises(reply.text)
    THEN ReturnedFloat(Int16(reply.text), decimals)
    ELSE ReturnedFloat(<< >>, decimals)

Outcome(op, decimals, reply) ==
    CASE op = "get_transaction_count" -> get_transaction_count(reply)
      [] op = "get_balance" -> get_balance(reply)
      [] op = "get_latest_block" -> get_latest_block(reply)
      [] op = "check_balance" -> check_balance(reply, decimals)
      [] op = "check_allowance" -> check_allowance(reply, decimals)

InFlight == calls # << >> /\ calls[Len(calls)].outcome = Pending

ClientInit ==
    /\ DiagnosisOff
    /\ norm = << >>
    /\ calls = << >>
    /\ CheckerOff

\* a helper is called and posts its request
Invoke(op, decimals) ==
    /\ ~InFlight
    /\ Len(calls) < MaxCalls
    /\ calls' = Append(calls, [op |-> op, decimals |-> decimals, sent |-> <<Request(op)>>,
                               reply |-> [kind |-> "pending", text |-> << >>],
                               outcome |-> Pending])
    /\ UNCHANGED <<diagnosis, norm, checker>>

\* a helper that posts its request again when the request failed
RespondRetrying(reply) ==
    /\ InFlight
    /\ LET c == calls[Len(calls)]
       IN  calls' = [calls EXCEPT ![Len(calls)] =
                        [c EXCEPT !.reply = reply,
                                  !.sent = IF reply.kind \in {"unavailable", "http_error"}
                                           THEN c.sent \o <<Request(c.op)>> ELSE c.sent,
                                  !.outcome = Outcome(c.op, c.decimals, reply)]]
    /\ UNCHANGED <<diagnosis, norm, checker>>

\* the reply arrives and the helper returns
Respond(reply) ==
    /\ InFlight
    /\ LET c == calls[Len(calls)]
       IN  calls' = [calls EXCEPT ![Len(calls)] =
                        [c EXCEPT !.reply = reply,
                                  !.outcome = Outcome(c.op, c.decimals, reply)]]
    /\ UNCHANGED <<diagnosis, norm, checker>>

ClientNext ==
    \/ \E op \in {"get_transaction_count", "get_latest_block"} : Invoke(op, 0)
    \/ Invoke("get_balance", 18)
    \/ \E op \in {"check_balance", "check_allowance"}, t \in TOKENS : Invoke(op, t.decimals)
    \/ \E reply \in Replies : Respond(reply)

ClientSpec == ClientInit /\ [][ClientNext]_vars

(***************************************************************************)
(* Claims about the RPC helpers                                            *)
(***************************************************************************)
Completed(c) == c.outcome # Pending

\* a "0x" string with at least one digit, all of them hexadecimal
WellFormedHex(s) ==
    /\ Len(s) > 2
    /\ SubSeq(s, 1, 2) = <<"0", "x">>
    /\ \A i \in 3..Len(s) : s[i] \in HexChars

\* the three outcomes a caller is to tell apart
ReplyClass(reply) ==
    CASE reply.kind = "unavailable" -> "RpcUnavailable"
      [] reply.kind = "rpc_error" -> "RpcError"
      [] reply.kind = "string" /\ WellFormedHex(reply.text) -> "result"
      [] OTHER -> "other"

\* a numeric result that is missing or is not a 0x-prefixed hexadecimal string
Malformed(reply) ==
    \/ reply.kind \in {"no_result", "null_result", "number"}
    \/ reply.kind = "string" /\ ~WellFormedHex(reply.text)

\* C17: two invocations of the same helper whose requests ended differently
\* (a result, a transport failure, an error reported by the node) give their
\* callers different outcomes: a failure never looks like a result or like
\* the other kind of failure.
C17_OutcomesToldApart ==
    \A i, j \in 1..Len(calls) :
        (/\ Completed(calls[i]) /\ Completed(calls[j])
         /\ calls[i].op = calls[j].op
         /\ calls[i].decimals = calls[j].decimals
         /\ ReplyClass(calls[i].reply) # "other"
         /\ ReplyClass(calls[j].reply) # "other"
         /\ ReplyClass(calls[i].reply) # ReplyClass(calls[j].reply))
            => calls[i].outcome # calls[j].outcome

\* C18: a helper given a numeric result that is missing or is not a
\* 0x-prefixed hexadecimal string does not return a number.
C18_MalformedNeverANumber ==
    \A i \in 1..Len(calls) :
        (Completed(calls[i]) /\ Malformed(calls[i].reply))
            => calls[i].outcome.kind \notin {"int", "float"}

\* C19: every invocation of a helper, in flight or returned, has sent one
\* request, also when that request failed.
C19_AtMostOneRequest ==
    \A i \in 1..Len(calls) : Len(calls[i].sent) <= 1

C19_Witness ==
    /\ Len(calls) = 2
    /\ calls[1].op = "get_balance" /\ calls[1].reply.kind = "unavailable"
    /\ calls[1].outcome = ReturnedNone /\ Len(calls[1].sent) = 1
    /\ calls[2].op = "check_balance" /\ calls[2].reply.kind = "http_error"
    /\ Completed(calls[2]) /\ Len(calls[2].sent) = 1

(***************************************************************************)
(* check_wallet_transactions.py as a process: main, check_wallet_activity  *)
(* and analyze_transaction, one step per RPC query                         *)
(***************************************************************************)
Modes == {"default", "tx", "latest"}

CheckerInit ==
    /\ DiagnosisOff
    /\ norm = << >>
    /\ calls = << >>
    /\ args \in Modes
    /\ cpc = "start"
    /\ queries = << >>
    /\ latest_block = None
    /\ tx_count = None
    /\ balance = None
    /\ tx_details = None
    /\ tx_receipt = None
    /\ returned = "nothing"
    /\ exit_code = -1

\* sys.exit(code), after the function main called returned r ("nothing"
\* when main called none, "raised" when an exception left it uncaught)
Exit(r, code) ==
    /\ cpc' = "exited"
    /\ returned' = r
    /\ exit_code' = code

\* main up to its first query; wallet_ok is whether load_wallet found a
\* valid wallet file
Start(wallet_ok) ==
    /\ cpc = "start"
    /\ IF args = "tx" THEN cpc' = "details" /\ UNCHANGED <<returned, exit_code>>
       ELSE IF ~wallet_ok THEN Exit("nothing", 1)
       ELSE IF args = "latest" THEN Exit("nothing", 0)
       ELSE cpc' = "block" /\ UNCHANGED <<returned, exit_code>>
    /\ UNCHANGED <<diagnosis, norm, calls, args, queries, latest_block, tx_count,
                   balance, tx_details, tx_receipt>>

\* a verdict that asks for both a transaction and a balance
has_activity_both(count, bal) == NumPositive(count.raw) /\ NumPositive(bal.raw)

\* has_activity = tx_count > 0 or balance > 0
has_activity(count, bal) == NumPositive(count.raw) \/ NumPositive(bal.raw)

\* a step of check_wallet_activity ends the process: False for a helper
\* that returned None, an uncaught exception for one that raised
StepEnds(o) ==
    IF o.kind = "None" THEN Exit("False", 1) ELSE Exit("raised", 1)

\* step 1 of check_wallet_activity
GetLatestBlock(reply) ==
    /\ cpc = "block"
    /\ queries' = Append(queries, Request("get_latest_block").method)
    /\ LET o == get_latest_block(reply)
       IN  /\ latest_block' = Some(o)
           /\ IF o.kind = "int" THEN cpc' = "count" /\ UNCHANGED <<returned, exit_code>>
              ELSE StepEnds(o)
    /\ UNCHANGED <<diagnosis, norm, calls, args, tx_count, balance, tx_details, tx_receipt>>

\* step 2 of check_wallet_activity
GetTransactionCount(reply) ==
    /\ cpc = "count"
    /\ queries' = Append(queries, Request("get_transaction_count").method)
    /\ LET o == get_transaction_count(reply)
       IN  /\ tx_count' = Some(o)
           /\ IF o.kind = "int" THEN cpc' = "balance" /\ UNCHANGED <<returned, exit_code>>
              ELSE StepEnds(o)
    /\ UNCHANGED <<diagnosis, norm, calls, args, latest_block, balance, tx_details, tx_receipt>>

\* step 3 of check_wallet_activity, its verdict and main's exit
GetBalance(reply) ==
    /\ cpc = "balance"
    /\ queries' = Append(queries, Request("get_balance").method)
    /\ LET o == get_balance(reply)
       IN  /\ balance' = Some(o)
           /\ IF o.kind = "float"
              THEN IF has_activity(tx_count[1], o) THEN Exit("True", 0) ELSE Exit("False", 1)
              ELSE StepEnds(o)
    /\ UNCHANGED <<diagnosis, norm, calls, args, latest_block, tx_count, tx_details, tx_receipt>>

\* a member of a JSON object: absent, null, or a string
FieldMissing == [kind |-> "missing", text |-> << >>]

FieldNull == [kind |-> "null", text |-> << >>]

FieldStr(t) == [kind |-> "string", text |-> t]

\* dict.get(key, default) for a string default
PyGet(f, default) == IF f.kind = "missing" THEN FieldStr(default) ELSE f

\* int(x, 16) raises: TypeError for None, ValueError for a string it cannot read
IntRaises(f) == f.kind = "null" \/ Int16Raises(f.text)

\* mask_address(x) raises: len(None) is a TypeError
MaskRaises(f) == f.kind = "null"

UNKNOWN == <<"u","n","k","n","o","w","n">>

ZERO_HEX == <<"0","x","0">>

ONE_HEX == <<"0","x","1">>

NOT_HEX == <<"0","x","z","z">>

\* the objects eth_getTransactionByHash can answer with; "to" is null for a
\* contract creation
TxObjects ==
    [from : {FieldStr(WalletA)},
     to : {FieldStr(ROUTER_V6), FieldNull, FieldMissing},
     value : {FieldStr(ZERO_HEX), FieldMissing, FieldStr(NOT_HEX)},
     gas : {FieldStr(PyHex(150000))},
     gasPrice : {FieldStr(PyHex(30)), FieldMissing}]

\* the objects eth_getTransactionReceipt can answer with
ReceiptObjects ==
    [status : {FieldStr(ONE_HEX), FieldStr(ZERO_HEX), FieldStr(<<"0","x","0","1">>), FieldMissing},
     blockNumber : {FieldStr(PyHex(74000000)), FieldMissing, FieldStr(NOT_HEX)},
     gasUsed : {FieldStr(PyHex(33462)), FieldNull}]

\* replies to which json_rpc_call answers None
FailedKinds == {"unavailable", "http_error", "not_json", "rpc_error", "no_result", "null_result"}

LookupReplies(objects) ==
    {[kind |-> k, object |-> CHOOSE o \in objects : TRUE] : k \in FailedKinds}
    \cup {[kind |-> "object", object |-> o] : o \in objects}

\* get_transaction_details and get_transaction_receipt: json_rpc_call's result
Lookup(reply) ==
    IF json_rpc_call([kind |-> reply.kind, text |-> << >>]).kind = "None"
    THEN None
    ELSE Some(reply.object)

\* the lines analyze_transaction prints about the transaction raise
DetailsRaise(tx) ==
    \/ MaskRaises(PyGet(tx.from, UNKNOWN))
    \/ MaskRaises(PyGet(tx.to, UNKNOWN))
    \/ IntRaises(PyGet(tx.value, ZERO_HEX))
    \/ IntRaises(PyGet(tx.gas, ZERO_HEX))
    \/ IntRaises(PyGet(tx.gasPrice, ZERO_HEX))

\* success = receipt.get('status', '0x0') == '0x1'
Success(r) == PyGet(r.status, ZERO_HEX) = FieldStr(ONE_HEX)

\* the lines analyze_transaction prints about the receipt raise
ReceiptRaise(r) ==
    \/ IntRaises(PyGet(r.blockNumber, ZERO_HEX))
    \/ IntRaises(PyGet(r.gasUsed, ZERO_HEX))

\* step 1 of analyze_transaction
GetTransactionDetails(reply) ==
    /\ cpc = "details"
    /\ queries' = Append(queries, "eth_getTransactionByHash")
    /\ LET d == Lookup(reply)
       IN  /\ tx_details' = d
           /\ IF d = None THEN Exit("False", 1)
              ELSE IF DetailsRaise(d[1]) THEN Exit("raised", 1)
              ELSE cpc' = "receipt" /\ UNCHANGED <<returned, exit_code>>
    /\ UNCHANGED <<diagnosis, norm, calls, args, latest_block, tx_count, balance, tx_receipt>>

\* step 2 of analyze_transaction, its verdict and main's exit
GetTransactionReceipt(reply) ==
    /\ cpc = "receipt"
    /\ queries' = Append(queries, "eth_getTransactionReceipt")
    /\ LET r == Lookup(reply)
       IN  /\ tx_receipt' = r
           /\ IF r = None THEN Exit("False", 1)
              ELSE IF ReceiptRaise(r[1]) THEN Exit("raised", 1)
              ELSE IF Success(r[1]) THEN Exit("True", 0)
              ELSE Exit("False", 1)
    /\ UNCHANGED <<diagnosis, norm, calls, args, latest_block, tx_count, balance, tx_details>>

CheckerNext ==
    \/ \E wallet_ok \in BOOLEAN : Start(wallet_ok)
    \/ \E reply \in Replies : GetLatestBlock(reply)
    \/ \E reply \in Replies : GetTransactionCount(reply)
    \/ \E reply \in Replies : GetBalance(reply)
    \/ \E reply \in LookupReplies(TxObjects) : GetTransactionDetails(reply)
    \/ \E reply \in LookupReplies(ReceiptObjects) : GetTransactionReceipt(reply)

CheckerSpec == CheckerInit /\ [][CheckerNext]_vars

(***************************************************************************)
(* Claims about check_wallet_transactions.py                               *)
(***************************************************************************)
ActivityQueries == <<"eth_blockNumber", "eth_getTransactionCount", "eth_getBalance">>

AnalysisQueries == <<"eth_getTransactionByHash", "eth_getTransactionReceipt">>

\* the query was made and its helper gave no value: it returned None or raised
QueryFailed(v) == v # None /\ v[1].kind \in {"None", "raised"}

\* the query was made and its helper returned None
QueryReturnedNone(v) == v # None /\ v[1].kind = "None"

QuerySucceeded(v) == v # None /\ v[1].kind \in {"int", "float"}

C22_AnalyzeTransaction ==
    args = "tx" =>
        /\ Len(queries) <= 2
        /\ queries = SubSeq(AnalysisQueries, 1, Len(queries))
        /\ Len(queries) = 2 => tx_details # None
        /\ cpc = "exited" =>
              /\ (returned = "True")
                    = (tx_details # None /\ tx_receipt # None /\ Success(tx_receipt[1]))
              /\ (exit_code = 0) = (returned = "True")

\* the same for receipts whose blockNumber and gasUsed int(_, 16) can
\* read; this holds
C22_WhenReceiptFieldsParse ==
    args = "tx" =>
        /\ Len(queries) <= 2
        /\ queries = SubSeq(AnalysisQueries, 1, Len(queries))
        /\ Len(queries) = 2 => (tx_details # None /\ ~DetailsRaise(tx_details[1]))
        /\ cpc = "exited" =>
              /\ (returned = "True")
                    = (/\ tx_details # None /\ tx_receipt # None
                       /\ Success(tx_receipt[1]) /\ ~ReceiptRaise(tx_receipt[1]))
              /\ (exit_code = 0) = (returned = "True")

====
